---------------------------- MODULE Spec2Model ----------------------------
(***************************************************************************)
(* Model of the long-running media-generation orchestrator                 *)
(* generateVideoWithExtension and of the retry wrapper withRetry.          *)
(*                                                                         *)
(* Two versions of the orchestrator live in the repository and both are    *)
(* modelled; the variable `variant` says which one a run executes:         *)
(*   "gemini" : src/services/geminiService.ts (no retry wrapper, floor,    *)
(*              extension only at 720p, soft failure by `break`)           *)
(*   "retry"  : src/unnamed/part_004 (submits wrapped by withRetry, ceil,  *)
(*              result of a round stored unconditionally)                  *)
(* The remote service is the environment: every answer of generateVideos,  *)
(* getVideosOperation and fetch is a nondeterministic choice.              *)
(***************************************************************************)
EXTENDS Integers, Sequences, FiniteSets, TLC

(***************************************************************************)
(* Bounds of the model                                                     *)
(***************************************************************************)
\* largest number of status checks answering done=false in one phase
MaxPolls == 2

\* target durations a run may be asked for (config.targetDuration)
Durations == {3, 5, 7, 12, 13, 19}

(***************************************************************************)
(* Program constants                                                       *)
(***************************************************************************)
BaseDuration == 5
RoundIncrement == 7
GeminiThreshold == 7
DefaultMaxRetries == 3
DefaultInitialDelay == 2000

Variants == {"gemini", "retry"}
Resolutions == {"720p", "1080p"}

(***************************************************************************)
(* Errors: what a rejected promise carries.  error?.message may be absent. *)
(***************************************************************************)
Err(m) == [hasMessage |-> TRUE, message |-> m]
ENoMessage == [hasMessage |-> FALSE, message |-> ""]
E429 == Err("got status: 429 RESOURCE_EXHAUSTED")
E500 == Err("500 Internal Server Error")
E503 == Err("503 Service Unavailable")
EAuth == Err("Requested entity was not found.")
ENetwork == Err("Failed to fetch")
EGenerationFailed == Err("Video generation failed.")
EDownloadLinkMissing == Err("Download link missing.")
EEmptyResult == Err("Video generation failed: Operation returned empty result.")
NoError == [hasMessage |-> FALSE, message |-> "<no error>"]

\* errors the remote service may answer a submit or a status check with
ServiceErrors == {E429, E500, E503, EAuth, ENoMessage}

\* String.prototype.includes
Includes(s, sub) ==
  \E k \in 1..(Len(s) - Len(sub) + 1) : SubSeq(s, k, k + Len(sub) - 1) = sub

\* const errorMsg = error?.message || ""
ErrorMsg(e) == IF e.hasMessage THEN e.message ELSE ""

IsTransientAlways(e) == TRUE

IsTransientStatusOnly(e) ==
  \/ Includes(ErrorMsg(e), "429")
  \/ Includes(ErrorMsg(e), "500")
  \/ Includes(ErrorMsg(e), "503")

\* the retry condition of withRetry
IsTransient(e) ==
  \/ Includes(ErrorMsg(e), "429")
  \/ Includes(ErrorMsg(e), "RESOURCE_EXHAUSTED")
  \/ Includes(ErrorMsg(e), "500")
  \/ Includes(ErrorMsg(e), "503")

Pow2(n) == IF n <= 0 THEN 1 ELSE IF n = 1 THEN 2 ELSE IF n = 2 THEN 4
           ELSE IF n = 3 THEN 8 ELSE 16

RetryDelayConstant(initial, n) == initial

RetryDelayLinear(initial, n) == initial * (n + 1)

\* const delay = initialDelay * Math.pow(2, i)
RetryDelay(initial, n) == initial * Pow2(n)

(***************************************************************************)
(* Videos and operations                                                   *)
(***************************************************************************)
\* operation.response?.generatedVideos?.[0]?.video, undefined when absent
NoVideo == [phase |-> -1, uri |-> FALSE]
Video(p, u) == [phase |-> p, uri |-> u]
HasVideo(v) == v.phase >= 0

NoOperation == [done |-> FALSE, video |-> NoVideo]

\* the answers a submit or status check of phase p can resolve with
DoneOperations(p) ==
  {[done |-> TRUE, video |-> v] : v \in {NoVideo, Video(p, TRUE), Video(p, FALSE)}}

ImageSeed == [kind |-> "image", video |-> NoVideo]

ContinuationSeedImage(fv) == ImageSeed

\* video: finalVideo
ContinuationSeed(fv) == [kind |-> "video", video |-> fv]

(***************************************************************************)
(* ExtensionPlanner: number of continuation rounds                         *)
(***************************************************************************)
FloorDiv(a, b) == a \div b
CeilDiv(a, b) == (a + b - 1) \div b

ExtensionsNeededInclusive(v, t, res) ==
  IF t >= BaseDuration THEN (t - BaseDuration) \div RoundIncrement + 1 ELSE 0

ExtensionsNeededAnyResolution(v, t, res) ==
  IF v = "gemini"
  THEN IF t > GeminiThreshold
       THEN FloorDiv(t - BaseDuration, RoundIncrement) ELSE 0
  ELSE IF t > BaseDuration
       THEN CeilDiv(t - BaseDuration, RoundIncrement) ELSE 0

\* the guard of the extension block and the number of rounds it loops for
ExtensionsNeeded(v, t, res) ==
  IF v = "gemini"
  THEN IF t > GeminiThreshold /\ res = "720p"
       THEN FloorDiv(t - BaseDuration, RoundIncrement) ELSE 0
  ELSE IF t > BaseDuration
       THEN CeilDiv(t - BaseDuration, RoundIncrement) ELSE 0

\* whether the extension block is entered at all
EntersExtension(v, t, res) ==
  IF v = "gemini" THEN t > GeminiThreshold /\ res = "720p" ELSE t > BaseDuration

SubmitResolutionRequested(ext, res) == res

\* resolution of a submit: config.resolution initially, '720p' in the loop
SubmitResolution(ext, res) == IF ext THEN "720p" ELSE res

VARIABLES
  variant,        \* which version of the orchestrator runs
  targetDuration, \* config.targetDuration
  resolution,     \* config.resolution
  pc,             \* position of the run
  operation,      \* operation / extOp
  finalVideo,     \* finalVideo
  i,              \* loop index of the extension loop
  rounds,         \* extensionsNeeded / rounds (-1 before it is computed)
  submits,        \* every generateVideos request sent, in order
  progress,       \* every onStatusChange message, in order
  pollSleeps,     \* 10 s sleeps of the current phase
  checks,         \* done flags reported by the status checks of the phase
  retryI,         \* withRetry: loop index i
  retryErrors,    \* withRetry: errors the attempts of the call threw
  retrySleeps,    \* withRetry: delays slept in the call
  retryState,     \* withRetry: "idle", "running", "returned", "threw"
  lastError,      \* withRetry: lastError
  thrown,         \* error the run rejected with
  returned,       \* artifact the run resolved with
  rejection,      \* error of the latest service call, NoError if it resolved
  results,        \* video of every phase whose operation reported done
  handler,        \* the application handler that awaits the run
  callerPc,       \* position of that handler
  caught,         \* err of the handler's catch block
  reauth,         \* the catch block called aistudio.openSelectKey()
  appError,       \* the argument of the latest setError
  videoCount,     \* videoCount of the handlers of part_007
  runIdx,         \* loop index of their `for (let i = 0; i < videoCount; i++)`
  gridImages,     \* App state: gridImages[setIdx] is set
  images,         \* App state: images holds an item of type 'image'
  editablePrompts, \* App state: editablePrompts[setIdx] is not empty
  setVideoLoading, \* App state: setVideoLoading[setIdx]
  calls,          \* the invocations of handleGenerateFullVideo
  maxRetries,     \* withRetry: parameter maxRetries
  initialDelay,   \* withRetry: parameter initialDelay
  runNo,          \* which invocation of the orchestrator is under way
  log,            \* the answers the service gave the first invocation
  prior,          \* what the first invocation did, once it has ended
  videoAspectRatio, \* App state: videoAspectRatio
  selections      \* keys of the settings buttons clicked so far, in order

inputVars == <<variant, targetDuration, resolution>>
retryVars == <<retryI, retryErrors, retrySleeps, retryState, lastError>>
pollVars == <<pollSleeps, checks>>
callerVars == <<handler, callerPc, caught, reauth, appError, videoCount, runIdx>>
appVars == <<gridImages, images, editablePrompts, setVideoLoading, calls>>
policyVars == <<maxRetries, initialDelay>>
\* what a run of the orchestrator never touches
replayVars == <<runNo, log, prior>>
settingsVars == <<videoAspectRatio, selections>>
outerVars == <<callerVars, appVars, policyVars, replayVars, settingsVars>>
runVars == <<variant, targetDuration, resolution, pc, operation, finalVideo, i,
             rounds, submits, progress, pollSleeps, checks, retryI,
             retryErrors, retrySleeps, retryState, lastError, thrown,
             returned, rejection, results>>
vars == <<runVars, outerVars>>

PC(name, ext) == IF ext THEN name \o "Ext" ELSE name \o "Init"

\* the phase a position belongs to: 0 initial, k continuation round k
Phase(ext) == IF ext THEN i + 1 ELSE 0

\* sets of the storyboard the App renders video buttons for
Sets == {0, 1}

\* a single invocation, nothing kept of any other
NoReplay ==
  /\ runNo = 1
  /\ log = {}
  /\ prior = <<>>

\* the settings panel is left as App renders it first
NoSettings ==
  /\ videoAspectRatio = "9:16"
  /\ selections = <<>>

\* no handler of the application is modelled around the run
NoCaller ==
  /\ handler = "none"
  /\ callerPc = "none"
  /\ caught = NoError
  /\ reauth = FALSE
  /\ appError = ""
  /\ videoCount = 1
  /\ runIdx = 0

\* the state of App before any upload, and no invocation of its handler
NoApp ==
  /\ gridImages = [s \in Sets |-> FALSE]
  /\ images = FALSE
  /\ editablePrompts = [s \in Sets |-> FALSE]
  /\ setVideoLoading = [s \in Sets |-> FALSE]
  /\ calls = <<>>

\* withRetry(fn) as the orchestrator calls it: both parameters default
DefaultPolicy ==
  /\ maxRetries = DefaultMaxRetries
  /\ initialDelay = DefaultInitialDelay

Init ==
  /\ NoReplay
  /\ NoSettings
  /\ NoCaller
  /\ NoApp
  /\ DefaultPolicy
  /\ variant \in Variants
  /\ targetDuration \in Durations
  /\ resolution \in Resolutions
  /\ pc = "begin"
  /\ operation = NoOperation
  /\ finalVideo = NoVideo
  /\ i = 0
  /\ rounds = -1
  /\ submits = <<>>
  /\ progress = <<>>
  /\ pollSleeps = 0
  /\ checks = <<>>
  /\ retryI = 0
  /\ retryErrors = <<>>
  /\ retrySleeps = <<>>
  /\ retryState = "idle"
  /\ lastError = NoError
  /\ thrown = NoError
  /\ returned = NoVideo
  /\ rejection = NoError
  /\ results = <<>>


(***************************************************************************)
(* Progress events (onStatusChange messages)                               *)
(***************************************************************************)
Event(k, a, b) == [kind |-> k, i |-> a, n |-> b]
StartEvent == Event("start", 0, 0)
RenderingEvent == Event("rendering", 0, 0)
DetectedEvent == Event("detected", 0, 0)
RoundEventFromZero(a, b) == Event("round", a - 1, b)
RoundEvent(a, b) == Event("round", a, b)
DistributeEvent == Event("distribute", 0, 0)

(***************************************************************************)
(* withRetry: entry of a call.  Only the "retry" version wraps its submits.*)
(***************************************************************************)
StartCallKeepCounter ==
  IF variant = "retry"
  THEN /\ retryI' = retryI
       /\ retryErrors' = <<>>
       /\ retrySleeps' = <<>>
       /\ retryState' = "running"
       /\ lastError' = NoError
  ELSE UNCHANGED retryVars

StartCall ==
  IF variant = "retry"
  THEN /\ retryI' = 0
       /\ retryErrors' = <<>>
       /\ retrySleeps' = <<>>
       /\ retryState' = "running"
       /\ lastError' = NoError
  ELSE UNCHANGED retryVars

\* the frame of a finished withRetry call is gone once the caller goes on
DropCall ==
  /\ retryI' = 0
  /\ retryErrors' = <<>>
  /\ retrySleeps' = <<>>
  /\ retryState' = "idle"
  /\ lastError' = NoError

\* the request a generateVideos call of the current phase sends
Request(ext) ==
  [phase |-> Phase(ext),
   resolution |-> SubmitResolution(ext, resolution),
   seed |-> IF ext THEN ContinuationSeed(finalVideo) ELSE ImageSeed]

RejectSoft(ext, e) ==
  IF ext
  THEN /\ pc' = "done"
       /\ returned' = finalVideo
       /\ thrown' = thrown
  ELSE /\ pc' = "failed"
       /\ thrown' = e
       /\ returned' = returned

\* an awaited rejection is caught nowhere in the run: the run rejects with it
Reject(ext, e) ==
  /\ pc' = "failed"
  /\ thrown' = e
  /\ returned' = returned

(***************************************************************************)
(* The end of the run: the uri check, and the download in "gemini".        *)
(***************************************************************************)
Finish(fv, prog) ==
  IF ~fv.uri
  THEN /\ pc' = "failed"
       /\ thrown' = IF variant = "gemini" THEN EDownloadLinkMissing ELSE EEmptyResult
       /\ returned' = returned
       /\ progress' = prog
       /\ DropCall
  ELSE IF variant = "gemini"
       THEN /\ pc' = "fetch"
            /\ progress' = Append(prog, DistributeEvent)
            /\ UNCHANGED <<thrown, returned>>
            /\ DropCall
       ELSE /\ pc' = "done"
            /\ returned' = fv
            /\ progress' = prog
            /\ thrown' = thrown
            /\ DropCall

LoopHeadInclusive(fv, idx, n, prog) ==
  IF idx <= n
  THEN /\ progress' = Append(prog, RoundEvent(idx + 1, n))
       /\ pc' = "submitExt"
       /\ StartCall
       /\ UNCHANGED <<thrown, returned>>
  ELSE Finish(fv, prog)

LoopHeadResubmit(fv, idx, n, prog) ==
  IF idx < n
  THEN /\ progress' = Append(prog, RoundEvent(idx + 1, n))
       /\ pc' = "submitInit"
       /\ StartCall
       /\ UNCHANGED <<thrown, returned>>
  ELSE Finish(fv, prog)

\* the test `i < rounds` of the extension loop, with the body up to the submit
LoopHead(fv, idx, n, prog) ==
  IF idx < n
  THEN /\ progress' = Append(prog, RoundEvent(idx + 1, n))
       /\ pc' = "submitExt"
       /\ StartCall
       /\ UNCHANGED <<thrown, returned>>
  ELSE Finish(fv, prog)

(***************************************************************************)
(* Actions                                                                 *)
(***************************************************************************)
\* onStatusChange("启动 ..."), up to the first generateVideos call
Begin ==
  /\ pc = "begin"
  /\ progress' = Append(progress, StartEvent)
  /\ pc' = "submitInit"
  /\ StartCall
  /\ UNCHANGED <<inputVars, outerVars, operation, finalVideo, i, rounds, submits,
                 pollSleeps, checks, thrown, returned, rejection, results>>

\* generateVideos resolves with an operation
SubmitResolves(ext) ==
  /\ pc = PC("submit", ext)
  /\ submits' = Append(submits, Request(ext))
  /\ \E op \in DoneOperations(Phase(ext)) \cup {NoOperation} : operation' = op
  /\ pc' = PC("poll", ext)
  /\ pollSleeps' = 0
  /\ checks' = <<>>
  /\ retryState' = IF variant = "retry" THEN "returned" ELSE retryState
  /\ rejection' = NoError
  /\ UNCHANGED <<inputVars, outerVars, finalVideo, i, rounds, progress, retryI,
                 retryErrors, retrySleeps, lastError, thrown, returned,
                 results>>

\* generateVideos rejects: withRetry's catch block, or the bare await
SubmitRejects(ext) ==
  /\ pc = PC("submit", ext)
  /\ submits' = Append(submits, Request(ext))
  /\ \E e \in ServiceErrors :
       /\ rejection' = e
       /\ IF variant = "retry"
          THEN /\ lastError' = e
               /\ retryErrors' = Append(retryErrors, e)
               /\ retryI' = retryI
               /\ IF IsTransient(e)
                  THEN /\ retrySleeps' =
                            Append(retrySleeps,
                                   RetryDelay(DefaultInitialDelay, retryI))
                       /\ pc' = PC("backoff", ext)
                       /\ retryState' = retryState
                       /\ UNCHANGED <<thrown, returned>>
                  ELSE /\ retrySleeps' = retrySleeps
                       /\ retryState' = "threw"
                       /\ Reject(ext, e)
          ELSE /\ Reject(ext, e)
               /\ UNCHANGED retryVars
  /\ UNCHANGED <<inputVars, outerVars, operation, finalVideo, i, rounds, progress,
                 pollSleeps, checks, results>>

\* the backoff timer fires: `continue`, then the test `i < maxRetries`
BackoffDone(ext) ==
  /\ pc = PC("backoff", ext)
  /\ retryI' = retryI + 1
  /\ IF retryI + 1 < DefaultMaxRetries
     THEN /\ pc' = PC("submit", ext)
          /\ retryState' = retryState
          /\ UNCHANGED <<thrown, returned>>
     ELSE /\ retryState' = "threw"
          /\ Reject(ext, lastError)
  /\ UNCHANGED <<inputVars, outerVars, operation, finalVideo, i, rounds, submits,
                 progress, pollSleeps, checks, retryErrors, retrySleeps,
                 lastError, rejection, results>>

PollSleepSkipFirst(ext) ==
  /\ pc = PC("poll", ext)
  /\ ~operation.done
  /\ progress' = IF variant = "retry" /\ ~ext
                 THEN Append(progress, RenderingEvent) ELSE progress
  /\ pollSleeps' = IF checks = <<>> THEN pollSleeps ELSE pollSleeps + 1
  /\ pc' = PC("check", ext)
  /\ DropCall
  /\ UNCHANGED <<inputVars, outerVars, operation, finalVideo, i, rounds, submits, checks,
                 thrown, returned, rejection, results>>

\* one iteration of `while (!operation.done)` up to the status check
PollSleep(ext) ==
  /\ pc = PC("poll", ext)
  /\ ~operation.done
  /\ progress' = IF variant = "retry" /\ ~ext
                 THEN Append(progress, RenderingEvent) ELSE progress
  /\ pollSleeps' = pollSleeps + 1
  /\ pc' = PC("check", ext)
  /\ DropCall
  /\ UNCHANGED <<inputVars, outerVars, operation, finalVideo, i, rounds, submits, checks,
                 thrown, returned, rejection, results>>

NotDoneReports == Cardinality({k \in 1..Len(checks) : ~checks[k]})

\* getVideosOperation resolves
CheckResolves(ext) ==
  /\ pc = PC("check", ext)
  /\ \E op \in DoneOperations(Phase(ext)) \cup
                 (IF NotDoneReports < MaxPolls THEN {NoOperation} ELSE {}) :
       /\ operation' = op
       /\ checks' = Append(checks, op.done)
  /\ pc' = PC("poll", ext)
  /\ rejection' = NoError
  /\ UNCHANGED <<inputVars, outerVars, finalVideo, i, rounds, submits, progress,
                 pollSleeps, retryVars, thrown, returned, results>>

\* getVideosOperation rejects
CheckRejects(ext) ==
  /\ pc = PC("check", ext)
  /\ \E e \in ServiceErrors : rejection' = e /\ Reject(ext, e)
  /\ UNCHANGED <<inputVars, outerVars, operation, finalVideo, i, rounds, submits,
                 progress, pollSleeps, checks, retryVars, results>>

InitialDoneNoWait ==
  /\ pc = "pollInit"
  /\ finalVideo' = operation.video
  /\ results' = Append(results, operation.video)
  /\ i' = 0
  /\ IF variant = "gemini" /\ ~HasVideo(operation.video)
     THEN /\ pc' = "failed"
          /\ thrown' = EGenerationFailed
          /\ DropCall
          /\ UNCHANGED <<rounds, progress, returned>>
     ELSE /\ rounds' = ExtensionsNeeded(variant, targetDuration, resolution)
          /\ LoopHead(operation.video, 0, rounds',
                      IF variant = "retry"
                           /\ EntersExtension(variant, targetDuration, resolution)
                      THEN Append(progress, DetectedEvent) ELSE progress)
  /\ UNCHANGED <<inputVars, outerVars, operation, submits, pollSleeps, checks, rejection>>

\* the initial operation is done: take its video, plan the extension
InitialDone ==
  /\ pc = "pollInit"
  /\ operation.done
  /\ finalVideo' = operation.video
  /\ results' = Append(results, operation.video)
  /\ i' = 0
  /\ IF variant = "gemini" /\ ~HasVideo(operation.video)
     THEN /\ pc' = "failed"
          /\ thrown' = EGenerationFailed
          /\ DropCall
          /\ UNCHANGED <<rounds, progress, returned>>
     ELSE /\ rounds' = ExtensionsNeeded(variant, targetDuration, resolution)
          /\ LoopHead(operation.video, 0, rounds',
                      IF variant = "retry"
                           /\ EntersExtension(variant, targetDuration, resolution)
                      THEN Append(progress, DetectedEvent) ELSE progress)
  /\ UNCHANGED <<inputVars, outerVars, operation, submits, pollSleeps, checks, rejection>>

\* a continuation operation is done: keep its video (or break), loop
RoundDone ==
  /\ pc = "pollExt"
  /\ operation.done
  /\ results' = Append(results, operation.video)
  /\ IF variant = "gemini" /\ ~HasVideo(operation.video)
     THEN /\ finalVideo' = finalVideo
          /\ i' = i
          /\ Finish(finalVideo, progress)
     ELSE /\ finalVideo' = operation.video
          /\ i' = i + 1
          /\ LoopHead(operation.video, i + 1, rounds, progress)
  /\ UNCHANGED <<inputVars, outerVars, operation, rounds, submits, pollSleeps, checks,
                 rejection>>

\* fetch(downloadLink) and response.blob() succeed
FetchResolves ==
  /\ pc = "fetch"
  /\ pc' = "done"
  /\ returned' = finalVideo
  /\ rejection' = NoError
  /\ UNCHANGED <<inputVars, outerVars, operation, finalVideo, i, rounds, submits,
                 progress, pollVars, retryVars, thrown, results>>

\* fetch(downloadLink) rejects
FetchRejects ==
  /\ pc = "fetch"
  /\ pc' = "failed"
  /\ thrown' = ENetwork
  /\ rejection' = ENetwork
  /\ UNCHANGED <<inputVars, outerVars, operation, finalVideo, i, rounds, submits,
                 progress, pollVars, retryVars, returned, results>>

Next ==
  \/ Begin
  \/ \E ext \in BOOLEAN : SubmitResolves(ext)
  \/ \E ext \in BOOLEAN : SubmitRejects(ext)
  \/ \E ext \in BOOLEAN : BackoffDone(ext)
  \/ \E ext \in BOOLEAN : PollSleep(ext)
  \/ \E ext \in BOOLEAN : CheckResolves(ext)
  \/ \E ext \in BOOLEAN : CheckRejects(ext)
  \/ InitialDone
  \/ RoundDone
  \/ FetchResolves
  \/ FetchRejects

Spec == Init /\ [][Next]_vars

TypeOK ==
  /\ pc \in {"begin", "submitInit", "backoffInit", "pollInit", "checkInit",
             "submitExt", "backoffExt", "pollExt", "checkExt", "fetch",
             "done", "failed"}
  /\ i \in 0..3
  /\ rounds \in -1..3
  /\ retryI \in 0..DefaultMaxRetries
  /\ retryState \in {"idle", "running", "returned", "threw"}
  /\ pollSleeps \in Nat


(***************************************************************************)
(* The one-shot orchestrator generateVideo (src/unnamed/part_000) and the  *)
(* try/catch of the handlers that await a run.  `variant` = "legacy" is    *)
(* generateVideo; its positions are named apart from those of              *)
(* generateVideoWithExtension, and its download is the same code.          *)
(***************************************************************************)
MaxVideoCount == 2

\* DURATION_OPTIONS of App.tsx
DurationOptions == {5, 12, 19}

EKeyExpired == Err("API_KEY_EXPIRED")

InitEvent == Event("init", 0, 0)
GeneratingEvent == Event("generating", 0, 0)
SyncEvent == Event("sync", 0, 0)

\* generateVideo always asks for 1080p, from the image
LegacyRequest == [phase |-> 0, resolution |-> "1080p", seed |-> ImageSeed]

LegacyRethrowSame(e) == e

\* the catch block around getVideosOperation in generateVideo
LegacyRethrow(e) ==
  IF e.hasMessage /\ Includes(e.message, "Requested entity was not found")
  THEN EKeyExpired
  ELSE e

\* the test of the handler's catch block that leads to openSelectKey()
Recognises(h, e) ==
  CASE h = "handleGenerateFullVideo" ->
         /\ e.hasMessage
         /\ e.message # ""
         /\ Includes(e.message, "Requested entity was not found")
    [] h = "startGenerateVideo" -> e.hasMessage /\ e.message = "API_KEY_EXPIRED"
    [] OTHER -> FALSE

\* the argument of setError in the handler's catch block
ShownError(h, e) ==
  CASE h = "handleGenerateFullVideo" ->
         IF ErrorMsg(e) # "" THEN ErrorMsg(e) ELSE "unknown error"
    [] h = "startGenerateVideo" ->
         IF Recognises(h, e) THEN "key invalid, select a paid key"
         ELSE "render failed, check the key's permissions"
    [] OTHER -> "render failed"

\* the locals of a fresh call of generateVideo
LegacyStart ==
  /\ pc' = "legacyBegin"
  /\ operation' = NoOperation
  /\ finalVideo' = NoVideo
  /\ submits' = <<>>
  /\ progress' = <<>>
  /\ pollSleeps' = 0
  /\ checks' = <<>>
  /\ returned' = NoVideo
  /\ rejection' = NoError
  /\ results' = <<>>

\* the locals of a run that has not started
FreshRun ==
  /\ operation = NoOperation
  /\ finalVideo = NoVideo
  /\ i = 0
  /\ rounds = -1
  /\ submits = <<>>
  /\ progress = <<>>
  /\ pollSleeps = 0
  /\ checks = <<>>
  /\ retryI = 0
  /\ retryErrors = <<>>
  /\ retrySleeps = <<>>
  /\ retryState = "idle"
  /\ lastError = NoError
  /\ thrown = NoError
  /\ returned = NoVideo
  /\ rejection = NoError
  /\ results = <<>>

\* the handler is inside its try block and the run it awaits has just begun
InitCaller ==
  /\ NoReplay
  /\ NoSettings
  /\ NoApp
  /\ DefaultPolicy
  /\ variant \in Variants \cup {"legacy"}
  /\ IF variant = "legacy"
     THEN /\ handler \in {"startGenerateVideo", "generateSingleVideo"}
          /\ videoCount \in 1..MaxVideoCount
          /\ targetDuration = BaseDuration
          /\ resolution = "1080p"
          /\ pc = "legacyBegin"
     ELSE /\ handler = "handleGenerateFullVideo"
          /\ videoCount = 1
          /\ targetDuration \in DurationOptions
          /\ resolution \in Resolutions
          /\ targetDuration > 5 => resolution = "720p"
          /\ pc = "begin"
  /\ callerPc = "awaiting"
  /\ caught = NoError
  /\ reauth = FALSE
  /\ appError = ""
  /\ runIdx = 0
  /\ FreshRun

\* onStatusChange("正在初始化 ..."), up to the generateVideos call
LegacyBegin ==
  /\ pc = "legacyBegin"
  /\ progress' = Append(progress, InitEvent)
  /\ pc' = "legacySubmit"
  /\ UNCHANGED <<inputVars, outerVars, operation, finalVideo, i, rounds,
                 submits, pollVars, retryVars, thrown, returned, rejection,
                 results>>

\* generateVideos resolves; onStatusChange("视频生成中...")
LegacySubmitResolves ==
  /\ pc = "legacySubmit"
  /\ submits' = Append(submits, LegacyRequest)
  /\ \E op \in DoneOperations(0) \cup {NoOperation} : operation' = op
  /\ progress' = Append(progress, GeneratingEvent)
  /\ pc' = "legacyPoll"
  /\ rejection' = NoError
  /\ UNCHANGED <<inputVars, outerVars, finalVideo, i, rounds, pollVars,
                 retryVars, thrown, returned, results>>

\* generateVideos rejects: the await stands outside every try block
LegacySubmitRejects ==
  /\ pc = "legacySubmit"
  /\ submits' = Append(submits, LegacyRequest)
  /\ \E e \in ServiceErrors :
       /\ rejection' = e
       /\ thrown' = e
  /\ pc' = "failed"
  /\ UNCHANGED <<inputVars, outerVars, operation, finalVideo, i, rounds,
                 progress, pollVars, retryVars, returned, results>>

\* one iteration of `while (!operation.done)` up to the status check
LegacyPollSleep ==
  /\ pc = "legacyPoll"
  /\ ~operation.done
  /\ pollSleeps' = pollSleeps + 1
  /\ pc' = "legacyCheck"
  /\ UNCHANGED <<inputVars, outerVars, operation, finalVideo, i, rounds,
                 submits, progress, checks, retryVars, thrown, returned,
                 rejection, results>>

\* getVideosOperation resolves
LegacyCheckResolves ==
  /\ pc = "legacyCheck"
  /\ \E op \in DoneOperations(0) \cup
                 (IF NotDoneReports < MaxPolls THEN {NoOperation} ELSE {}) :
       /\ operation' = op
       /\ checks' = Append(checks, op.done)
  /\ pc' = "legacyPoll"
  /\ rejection' = NoError
  /\ UNCHANGED <<inputVars, outerVars, finalVideo, i, rounds, submits,
                 progress, pollSleeps, retryVars, thrown, returned, results>>

\* getVideosOperation rejects: the catch block rethrows
LegacyCheckRejects ==
  /\ pc = "legacyCheck"
  /\ \E e \in ServiceErrors :
       /\ rejection' = e
       /\ thrown' = LegacyRethrow(e)
  /\ pc' = "failed"
  /\ UNCHANGED <<inputVars, outerVars, operation, finalVideo, i, rounds,
                 submits, progress, pollVars, retryVars, returned, results>>

\* the operation is done: the uri check, onStatusChange("同步中...")
LegacyDone ==
  /\ pc = "legacyPoll"
  /\ operation.done
  /\ results' = Append(results, operation.video)
  /\ finalVideo' = operation.video
  /\ IF ~operation.video.uri
     THEN /\ pc' = "failed"
          /\ thrown' = EGenerationFailed
          /\ progress' = progress
     ELSE /\ pc' = "fetch"
          /\ thrown' = thrown
          /\ progress' = Append(progress, SyncEvent)
  /\ UNCHANGED <<inputVars, outerVars, operation, i, rounds, submits,
                 pollVars, retryVars, returned, rejection>>

\* the awaited run resolved: store the url; part_007 loops to its next video
CallerResolves ==
  /\ callerPc = "awaiting"
  /\ pc = "done"
  /\ IF variant = "legacy" /\ runIdx + 1 < videoCount
     THEN /\ runIdx' = runIdx + 1
          /\ callerPc' = callerPc
          /\ LegacyStart
     ELSE /\ runIdx' = IF variant = "legacy" THEN runIdx + 1 ELSE runIdx
          /\ callerPc' = "settled"
          /\ UNCHANGED <<pc, operation, finalVideo, submits, progress,
                         pollVars, returned, rejection, results>>
  /\ UNCHANGED <<inputVars, appVars, policyVars, replayVars, settingsVars, handler, caught, reauth,
                 appError, videoCount, i, rounds, retryVars, thrown>>

\* the awaited run rejected: the catch block, then the finally block
CallerCatches ==
  /\ callerPc = "awaiting"
  /\ pc = "failed"
  /\ caught' = thrown
  /\ reauth' = Recognises(handler, thrown)
  /\ appError' = ShownError(handler, thrown)
  /\ callerPc' = "settled"
  /\ UNCHANGED <<runVars, appVars, policyVars, replayVars, settingsVars, handler, videoCount,
                 runIdx>>

NextCaller ==
  \/ Next
  \/ LegacyBegin
  \/ LegacySubmitResolves
  \/ LegacySubmitRejects
  \/ LegacyPollSleep
  \/ LegacyCheckResolves
  \/ LegacyCheckRejects
  \/ LegacyDone
  \/ CallerResolves
  \/ CallerCatches

CallerSpec == InitCaller /\ [][NextCaller]_vars

(***************************************************************************)
(* handleGenerateFullVideo of App.tsx, from the click on a video button of *)
(* a set to the end of its finally block.  Each click is an invocation of  *)
(* its own; the run an invocation awaits is in flight from the call of     *)
(* generateVideoWithExtension, which sends its first request before it     *)
(* first yields, until the promise settles.                                *)
(***************************************************************************)
MaxCalls == 2

Modes == {"grid", "direct"}

\* what the awaited run can reject with
RunErrors == ServiceErrors \cup {EGenerationFailed, EDownloadLinkMissing, ENetwork}

\* App after uploads, analysis and grid generation, at its initial settings
InitApp ==
  /\ NoReplay
  /\ NoSettings
  /\ NoCaller
  /\ DefaultPolicy
  /\ variant = "gemini"
  /\ targetDuration = BaseDuration
  /\ resolution = "1080p"
  /\ pc = "none"
  /\ FreshRun
  /\ gridImages \in [Sets -> BOOLEAN]
  /\ images \in BOOLEAN
  /\ editablePrompts \in [Sets -> BOOLEAN]
  /\ setVideoLoading = [s \in Sets |-> FALSE]
  /\ calls = <<>>

\* referenceVisual is not empty
ReferenceVisual(s, m) == IF m = "grid" THEN gridImages[s] ELSE images

ScriptMissingNever(s) == FALSE

\* !scriptText
ScriptMissing(s) == ~editablePrompts[s]

\* the setError message of the early returns, "" if there is none
ValidationError(s, m) ==
  IF m = "grid" /\ ~gridImages[s] THEN "generate the grid image first"
  ELSE IF m = "direct" /\ ~images THEN "no product image in the pipeline"
  ELSE IF ScriptMissing(s) THEN "the script must not be empty"
  ELSE ""

\* handleError
HandleError(e) ==
  appError' = IF ErrorMsg(e) # "" THEN ErrorMsg(e) ELSE "unknown error"

\* from the key check to the early return or the call of the orchestrator
Proceed(c) ==
  LET s == calls[c].setIdx
      m == calls[c].mode
  IN IF ValidationError(s, m) # ""
     THEN /\ appError' = ValidationError(s, m)
          /\ calls' = [calls EXCEPT ![c].pc = "returned"]
          /\ UNCHANGED setVideoLoading
     ELSE /\ setVideoLoading' = [setVideoLoading EXCEPT ![s] = TRUE]
          /\ calls' = [calls EXCEPT ![c].pc = "running", ![c].submitted = TRUE]
          /\ UNCHANGED appError

\* the finally block
Finally(c) == setVideoLoading' = [setVideoLoading EXCEPT ![calls[c].setIdx] = FALSE]

appFrame == <<runVars, policyVars, replayVars, settingsVars, handler, callerPc, caught, reauth,
              videoCount, runIdx, gridImages, images, editablePrompts>>

\* a click on an enabled button: the handler runs up to hasSelectedApiKey()
Click(s, m) ==
  /\ Len(calls) < MaxCalls
  /\ ~setVideoLoading[s]
  /\ m = "grid" => gridImages[s]
  /\ m = "direct" => images
  /\ calls' = Append(calls, [setIdx |-> s, mode |-> m, pc |-> "hasKey",
                             submitted |-> FALSE, err |-> NoError])
  /\ UNCHANGED <<appFrame, setVideoLoading, appError>>

\* hasSelectedApiKey() resolves
KeyChecked(c) ==
  /\ c \in DOMAIN calls
  /\ calls[c].pc = "hasKey"
  /\ \E hasKey \in BOOLEAN :
       IF hasKey
       THEN Proceed(c)
       ELSE /\ calls' = [calls EXCEPT ![c].pc = "selectKey"]
            /\ UNCHANGED <<setVideoLoading, appError>>
  /\ UNCHANGED appFrame

\* openSelectKey() resolves
KeySelected(c) ==
  /\ c \in DOMAIN calls
  /\ calls[c].pc = "selectKey"
  /\ Proceed(c)
  /\ UNCHANGED appFrame

\* the awaited run resolves: setSetVideoUrls, finally
RunResolves(c) ==
  /\ c \in DOMAIN calls
  /\ calls[c].pc = "running"
  /\ calls' = [calls EXCEPT ![c].pc = "finished"]
  /\ Finally(c)
  /\ UNCHANGED <<appFrame, appError>>

\* the awaited run rejects: the catch block up to its await, or to the end
RunRejects(c) ==
  /\ c \in DOMAIN calls
  /\ calls[c].pc = "running"
  /\ \E e \in RunErrors :
       IF Recognises("handleGenerateFullVideo", e)
       THEN /\ calls' = [calls EXCEPT ![c].pc = "reauth", ![c].err = e]
            /\ UNCHANGED <<setVideoLoading, appError>>
       ELSE /\ calls' = [calls EXCEPT ![c].pc = "finished", ![c].err = e]
            /\ HandleError(e)
            /\ Finally(c)
  /\ UNCHANGED appFrame

\* openSelectKey() of the catch block resolves: handleError, finally
ReauthDone(c) ==
  /\ c \in DOMAIN calls
  /\ calls[c].pc = "reauth"
  /\ calls' = [calls EXCEPT ![c].pc = "finished"]
  /\ HandleError(calls[c].err)
  /\ Finally(c)
  /\ UNCHANGED appFrame

NextApp ==
  \/ \E s \in Sets, m \in Modes : Click(s, m)
  \/ \E c \in 1..MaxCalls : KeyChecked(c)
  \/ \E c \in 1..MaxCalls : KeySelected(c)
  \/ \E c \in 1..MaxCalls : RunResolves(c)
  \/ \E c \in 1..MaxCalls : RunRejects(c)
  \/ \E c \in 1..MaxCalls : ReauthDone(c)

AppSpec == InitApp /\ [][NextApp]_vars

(***************************************************************************)
(* withRetry on its own: one call withRetry(fn, maxRetries, initialDelay)  *)
(* whose fn resolves or rejects as the environment chooses.                *)
(***************************************************************************)
MaxRetryCount == 3

InitialDelays == {1000, 2000}

EResourceExhausted == Err("RESOURCE_EXHAUSTED")
EBadRequest == Err("400 Bad Request")
ETimeout == Err("deadline of 1500 ms exceeded")

\* what fn can reject with
AttemptErrors ==
  ServiceErrors \cup {EResourceExhausted, EBadRequest, ETimeout, ENetwork}

InitRetry ==
  /\ NoReplay
  /\ NoSettings
  /\ NoCaller
  /\ NoApp
  /\ maxRetries \in 0..MaxRetryCount
  /\ initialDelay \in InitialDelays
  /\ variant = "retry"
  /\ targetDuration = BaseDuration
  /\ resolution = "1080p"
  /\ pc = "retryEnter"
  /\ FreshRun

retryFrame == <<inputVars, outerVars, operation, finalVideo, i, rounds,
                submits, progress, pollVars, returned, results>>

\* `throw lastError` after the loop
ThrowLast ==
  /\ thrown' = lastError
  /\ retryState' = "threw"
  /\ pc' = "retryThrew"

\* let lastError; the first test `i < maxRetries`
RetryEnter ==
  /\ pc = "retryEnter"
  /\ IF 0 < maxRetries
     THEN /\ pc' = "retryAttempt"
          /\ retryState' = "running"
          /\ thrown' = thrown
     ELSE ThrowLast
  /\ UNCHANGED <<retryFrame, retryI, retryErrors, retrySleeps, lastError,
                 rejection>>

\* return await fn()
AttemptResolves ==
  /\ pc = "retryAttempt"
  /\ pc' = "retryReturned"
  /\ retryState' = "returned"
  /\ rejection' = NoError
  /\ UNCHANGED <<retryFrame, retryI, retryErrors, retrySleeps, lastError,
                 thrown>>

AttemptRejectsNoWait ==
  /\ pc = "retryAttempt"
  /\ \E e \in AttemptErrors :
       /\ rejection' = e
       /\ lastError' = e
       /\ retryErrors' = Append(retryErrors, e)
       /\ IF IsTransient(e)
          THEN /\ retrySleeps' =
                    Append(retrySleeps, RetryDelay(initialDelay, retryI))
               /\ pc' = IF Len(retryErrors) + 1 < maxRetries
                        THEN "retryAttempt" ELSE "retryBackoff"
               /\ UNCHANGED <<retryState, thrown>>
          ELSE /\ retrySleeps' = retrySleeps
               /\ thrown' = e
               /\ retryState' = "threw"
               /\ pc' = "retryThrew"
  /\ UNCHANGED <<retryFrame, retryI>>

\* fn rejects: the catch block up to the sleep or the throw
AttemptRejects ==
  /\ pc = "retryAttempt"
  /\ \E e \in AttemptErrors :
       /\ rejection' = e
       /\ lastError' = e
       /\ retryErrors' = Append(retryErrors, e)
       /\ IF IsTransient(e)
          THEN /\ retrySleeps' =
                    Append(retrySleeps, RetryDelay(initialDelay, retryI))
               /\ pc' = "retryBackoff"
               /\ UNCHANGED <<retryState, thrown>>
          ELSE /\ retrySleeps' = retrySleeps
               /\ thrown' = e
               /\ retryState' = "threw"
               /\ pc' = "retryThrew"
  /\ UNCHANGED <<retryFrame, retryI>>

\* the timer fires: `continue`, i++, the test `i < maxRetries`
RetrySleepDone ==
  /\ pc = "retryBackoff"
  /\ retryI' = retryI + 1
  /\ IF retryI + 1 < maxRetries
     THEN /\ pc' = "retryAttempt"
          /\ UNCHANGED <<retryState, thrown>>
     ELSE ThrowLast
  /\ UNCHANGED <<retryFrame, retryErrors, retrySleeps, lastError, rejection>>

NextRetry ==
  \/ RetryEnter
  \/ AttemptResolves
  \/ AttemptRejects
  \/ RetrySleepDone

RetrySpec == InitRetry /\ [][NextRetry]_vars

(***************************************************************************)
(* Two invocations of generateVideoWithExtension, one after the other,     *)
(* with the same arguments; the service answers each request of the second *)
(* as it answered the same request of the first.                           *)
(***************************************************************************)
ReplayDurations == {5, 12}

InitReplay ==
  /\ NoReplay
  /\ NoSettings
  /\ NoCaller
  /\ NoApp
  /\ DefaultPolicy
  /\ variant \in Variants
  /\ targetDuration \in ReplayDurations
  /\ resolution \in Resolutions
  /\ pc = "begin"
  /\ FreshRun

\* status checks that have settled since the latest submit resolved
ChecksSettled ==
  IF pc \in {"checkInit", "checkExt"} THEN pollSleeps - 1 ELSE pollSleeps

\* the download has settled
FetchSettled ==
  \/ variant = "gemini" /\ pc = "done"
  \/ pc = "failed" /\ rejection = ENetwork

\* the latest request of the invocation that the service has answered
LastCall == <<Len(submits), ChecksSettled, FetchSettled>>

NoCallYet == submits = <<>>

\* the answer to that request
LastAnswer == [call |-> LastCall, rej |-> rejection, op |-> operation]

Logged == NoCallYet \/ \E a \in log : a.call = LastCall

\* the service has answered as the log says
Consistent == NoCallYet \/ LastAnswer \in log

\* what an invocation did
Observed ==
  [submits |-> submits, progress |-> progress, results |-> results,
   pollSleeps |-> pollSleeps, checks |-> checks, thrown |-> thrown,
   returned |-> returned, pc |-> pc]

\* the answers the service gives in these two invocations
ReplayErrors == {E429, EAuth, ENetwork}

ReplayAnswer ==
  /\ rejection \in ReplayErrors \cup {NoError}
  /\ operation.video.uri \/ ~HasVideo(operation.video)

\* a step of the invocation under way: the first is answered freely, the
\* second as the log says
RunStep ==
  /\ Logged
  /\ Next
  /\ ReplayAnswer'
  /\ runNo = 2 => Consistent'

\* the answer just given to the first invocation is kept for the second
LogAnswer ==
  /\ runNo = 1
  /\ ~Logged
  /\ log' = log \cup {LastAnswer}
  /\ UNCHANGED <<runVars, callerVars, appVars, policyVars, settingsVars, runNo,
                 prior>>

\* the first invocation has settled; the function is called again: its
\* parameters and locals are new, those of withRetry are new at each call
RunAgain ==
  /\ runNo = 1
  /\ pc \in {"done", "failed"}
  /\ Consistent
  /\ runNo' = 2
  /\ prior' = <<Observed>>
  /\ pc' = "begin"
  /\ operation' = NoOperation
  /\ finalVideo' = NoVideo
  /\ i' = 0
  /\ rounds' = -1
  /\ submits' = <<>>
  /\ progress' = <<>>
  /\ pollSleeps' = 0
  /\ checks' = <<>>
  /\ thrown' = NoError
  /\ returned' = NoVideo
  /\ rejection' = NoError
  /\ results' = <<>>
  /\ UNCHANGED <<inputVars, retryVars, callerVars, appVars, policyVars,
                 settingsVars, log>>

NextReplay ==
  \/ RunStep
  \/ LogAnswer
  \/ RunAgain

ReplaySpec == InitReplay /\ [][NextReplay]_vars

(***************************************************************************)
(* A run in which no remote call rejects and every operation reports done  *)
(* after at most MaxPolls reports of not done.  Promise continuations and  *)
(* timers are run by the event loop as soon as they are ready.             *)
(***************************************************************************)
NextAnswered ==
  \/ Begin
  \/ \E ext \in BOOLEAN : SubmitResolves(ext)
  \/ \E ext \in BOOLEAN : PollSleep(ext)
  \/ \E ext \in BOOLEAN : CheckResolves(ext)
  \/ InitialDone
  \/ RoundDone
  \/ FetchResolves

AnsweredSpec == Init /\ [][NextAnswered]_vars /\ WF_vars(NextAnswered)

(***************************************************************************)
(* The video settings of App.tsx: three rows of buttons.  Each click runs  *)
(* its handler to the end before the panel is rendered again, so the test  *)
(* `disabled` of a button sees the state the previous click left.          *)
(***************************************************************************)
MaxSelections == 3

AspectRatios == {"16:9", "9:16"}

\* key of a duration button
DurationKey(d) == IF d = 5 THEN "5" ELSE IF d = 12 THEN "12" ELSE "19"

InitSettings ==
  /\ NoReplay
  /\ NoCaller
  /\ NoApp
  /\ DefaultPolicy
  /\ variant = "gemini"
  /\ resolution = "1080p"
  /\ videoAspectRatio = "9:16"
  /\ targetDuration = 5
  /\ selections = <<>>
  /\ pc = "begin"
  /\ FreshRun

settingsFrame == <<variant, pc, operation, finalVideo, i, rounds, submits,
                   progress, pollSleeps, checks, retryVars, thrown, returned,
                   rejection, results, callerVars, appVars, policyVars,
                   replayVars>>

SelectDurationOnly(d) ==
  /\ Len(selections) < MaxSelections
  /\ targetDuration' = d
  /\ resolution' = resolution
  /\ selections' = Append(selections, DurationKey(d))
  /\ UNCHANGED <<videoAspectRatio, settingsFrame>>

\* onClick of a duration button
SelectDuration(d) ==
  /\ Len(selections) < MaxSelections
  /\ targetDuration' = d
  /\ resolution' = IF d > 5 THEN "720p" ELSE resolution
  /\ selections' = Append(selections, DurationKey(d))
  /\ UNCHANGED <<videoAspectRatio, settingsFrame>>

\* onClick of a resolution button that is not disabled
SelectResolution(res) ==
  /\ Len(selections) < MaxSelections
  /\ ~(targetDuration > 5 /\ res = "1080p")
  /\ resolution' = res
  /\ selections' = Append(selections, res)
  /\ UNCHANGED <<targetDuration, videoAspectRatio, settingsFrame>>

\* onClick of an aspect-ratio button
SelectAspectRatio(ratio) ==
  /\ Len(selections) < MaxSelections
  /\ videoAspectRatio' = ratio
  /\ selections' = Append(selections, ratio)
  /\ UNCHANGED <<targetDuration, resolution, settingsFrame>>

NextSettings ==
  \/ \E d \in DurationOptions : SelectDuration(d)
  \/ \E res \in Resolutions : SelectResolution(res)
  \/ \E ratio \in AspectRatios : SelectAspectRatio(ratio)

SettingsSpec == InitSettings /\ [][NextSettings]_vars

(***************************************************************************)
(* Vocabulary of the properties                                            *)
(***************************************************************************)
\* errors with a rate-limit or overload signature, and the others
TransientErrors == {E429, E500, E503}
FatalErrors == {EAuth, ENoMessage}

\* the least n with n * RoundIncrement >= t - BaseDuration
CeilRounds(t) ==
  CHOOSE n \in 0..t :
    /\ n * RoundIncrement >= t - BaseDuration
    /\ (n - 1) * RoundIncrement < t - BaseDuration

\* the phases a request was sent for
PhasesSubmitted == {submits[k].phase : k \in 1..Len(submits)}
ContinuationsSubmitted == PhasesSubmitted \ {0}

\* requests sent for the phase of the latest request
RequestsOfLastPhase ==
  Cardinality({k \in 1..Len(submits) : submits[k].phase = submits[Len(submits)].phase})

\* the latest request belongs to a continuation round
InContinuation == submits # <<>> /\ submits[Len(submits)].phase >= 1

AllRoundsSucceeded ==
  /\ rounds >= 0
  /\ Len(results) = rounds + 1
  /\ \A k \in 1..Len(results) : HasVideo(results[k]) /\ results[k].uri

(***************************************************************************)
(* C1: for every targetDuration above the base duration 5 the number of    *)
(* continuation rounds planned is ceil((targetDuration - 5) / 7), and that *)
(* many rounds are submitted when all succeed: 5 gives 0, 12 gives 1,      *)
(* 13 gives 2, 19 gives 2.  The service in geminiService.ts plans          *)
(* floor((targetDuration - 5) / 7) rounds, and none at 1080p or up to 7.   *)
(***************************************************************************)
C1_RoundsAreCeiling ==
  rounds >= 0 =>
    /\ targetDuration > BaseDuration => rounds = CeilRounds(targetDuration)
    /\ targetDuration = 5 => rounds = 0
    /\ targetDuration = 12 => rounds = 1
    /\ targetDuration = 13 => rounds = 2
    /\ targetDuration = 19 => rounds = 2
    /\ (pc = "done" /\ AllRoundsSucceeded) =>
          Cardinality(ContinuationsSubmitted) = rounds

(***************************************************************************)
(* C2: with targetDuration <= 5 the run plans zero rounds, sends no        *)
(* continuation request, and every request it sends carries the requested  *)
(* resolution.                                                             *)
(***************************************************************************)
C2_NoExtensionUpToBase ==
  targetDuration <= BaseDuration =>
    /\ rounds \in {-1, 0}
    /\ \A k \in 1..Len(submits) :
         /\ submits[k].phase = 0
         /\ submits[k].seed = ImageSeed
         /\ submits[k].resolution = resolution

C2_Witness ==
  /\ targetDuration <= BaseDuration
  /\ resolution = "1080p"
  /\ pc = "done"
  /\ rounds = 0
  /\ Len(submits) >= 1

(***************************************************************************)
(* C3: when a continuation round completes without a video while an        *)
(* earlier artifact exists, the run sends no further request, keeps that   *)
(* artifact and goes on to return it.  The version with withRetry stores   *)
(* the missing video and ends with "Operation returned empty result".      *)
(***************************************************************************)
C3_SoftFailureKeepsArtifact ==
  [][(/\ pc = "pollExt"
      /\ operation.done
      /\ ~HasVideo(operation.video)
      /\ finalVideo.uri)
     => (/\ pc' \in {"done", "fetch"}
         /\ finalVideo' = finalVideo
         /\ submits' = submits
         /\ pc' = "done" => returned' = finalVideo)]_vars

C5_SeedIsPreviousResult ==
  /\ \A k \in 1..Len(submits) :
       submits[k].phase >= 1 =>
         /\ submits[k].phase <= Len(results)
         /\ submits[k].seed = [kind |-> "video",
                               video |-> results[submits[k].phase]]
         /\ submits[k].seed # ImageSeed
  /\ (pc = "done" /\ AllRoundsSucceeded) =>
       /\ returned = results[Len(results)]
       /\ returned.phase = rounds

C5_Witness ==
  /\ pc = "done"
  /\ AllRoundsSucceeded
  /\ rounds = 2
  /\ Cardinality(ContinuationsSubmitted) = 2

(***************************************************************************)
(* C6: when the wrapped operation fails twice with a transient signature   *)
(* and then succeeds, withRetry returns, having invoked it 3 times and     *)
(* slept twice, the second sleep at least twice the first.                 *)
(***************************************************************************)
C6_TwoTransientThenSuccess ==
  (/\ retryState = "returned"
   /\ Len(retryErrors) = 2
   /\ \A k \in 1..2 : retryErrors[k] \in TransientErrors)
  => /\ RequestsOfLastPhase = 3
     /\ Len(retrySleeps) = 2
     /\ retrySleeps[2] >= 2 * retrySleeps[1]
     /\ retrySleeps[1] > 0
     /\ rejection = NoError
     /\ pc \in {"pollInit", "pollExt"}

C6_Witness ==
  /\ retryState = "returned"
  /\ retryErrors = <<E429, E503>>
  /\ RequestsOfLastPhase = 3

(***************************************************************************)
(* C7: a failure with a fatal signature is re-raised at once: it is the    *)
(* last attempt of the call, no sleep follows it, the call throws that     *)
(* same error; when it is the first failure the operation was invoked      *)
(* once and nothing was slept.                                             *)
(***************************************************************************)
C7_FatalIsRaisedAtOnce ==
  \A k \in 1..Len(retryErrors) :
    retryErrors[k] \in FatalErrors =>
      /\ k = Len(retryErrors)
      /\ Len(retrySleeps) = k - 1
      /\ RequestsOfLastPhase = k
      /\ retryState = "threw"
      /\ pc = "failed"
      /\ thrown = retryErrors[k]

C7_Witness ==
  /\ retryState = "threw"
  /\ retryErrors = <<EAuth>>
  /\ retrySleeps = <<>>
  /\ RequestsOfLastPhase = 1

(***************************************************************************)
(* C8: withRetry sleeps only while attempts remain: a call never sleeps    *)
(* more than maxRetries - 1 times, and when the attempts are exhausted it  *)
(* throws the error of the final attempt.  The code sleeps after the       *)
(* final attempt too, before it throws.                                    *)
(***************************************************************************)
C8_NoSleepOnceExhausted ==
  /\ Len(retrySleeps) <= DefaultMaxRetries - 1
  /\ (retryState = "threw" /\ Len(retryErrors) = DefaultMaxRetries) =>
       thrown = retryErrors[DefaultMaxRetries]

(***************************************************************************)
(* C9 as stated: status checks reporting done=false, done=false, done=true *)
(* make the poller sleep exactly twice.                                    *)
(***************************************************************************)
C9_TwoSleeps ==
  checks = <<FALSE, FALSE, TRUE>> => pollSleeps = 2

(***************************************************************************)
(* C9 amended: status checks reporting done=false, done=false, done=true   *)
(* make the poller sleep exactly 3 times, once before each status check.   *)
(***************************************************************************)
C9_ThreeSleeps ==
  /\ checks = <<FALSE, FALSE, TRUE>> => pollSleeps = 3
  /\ pc \in {"pollInit", "pollExt"} => pollSleeps = Len(checks)
  /\ pc \in {"checkInit", "checkExt"} => pollSleeps = Len(checks) + 1

C9_Witness ==
  /\ checks = <<FALSE, FALSE, TRUE>>
  /\ operation.done
  /\ pc = "pollExt"

(***************************************************************************)
(* C10: an error with a transient signature thrown by a submit or by a     *)
(* status check never aborts the run nor reaches its caller.  Status       *)
(* checks are not wrapped by withRetry, geminiService.ts wraps nothing,    *)
(* and withRetry gives up after 3 attempts.                                *)
(***************************************************************************)
C10_TransientNeverVisible ==
  /\ rejection \in TransientErrors => pc # "failed"
  /\ pc = "failed" => thrown \notin TransientErrors


\* every operation that reported done carried a video with a uri
AllPhasesUsable ==
  /\ results # <<>>
  /\ \A k \in 1..Len(results) : HasVideo(results[k]) /\ results[k].uri

\* requests are sent phase after phase: 0, then 1, then 2
SubmitsInPhaseOrder ==
  /\ submits # <<>> => submits[1].phase = 0
  /\ \A k \in 1..(Len(submits) - 1) :
       submits[k + 1].phase \in {submits[k].phase, submits[k].phase + 1}

C12_InitialFailureAborts ==
  /\ (results # <<>> /\ ~HasVideo(results[1])) =>
       (pc = "failed" /\ ContinuationsSubmitted = {} /\ returned = NoVideo)
  /\ (submits # <<>> /\ ~InContinuation /\ rejection \in FatalErrors) =>
       (pc = "failed" /\ ContinuationsSubmitted = {} /\ returned = NoVideo)

(***************************************************************************)
(* C13: phases are strictly ordered: a continuation request is sent only   *)
(* after the operation of the phase before it reported done, requests go   *)
(* phase by phase, and while an operation is polled no other exists.       *)
(***************************************************************************)
C13_PhasesStrictlyOrdered ==
  /\ pc \in {"submitExt", "backoffExt"} =>
       (operation.done /\ Len(results) = i + 1)
  /\ pc \in {"submitInit", "backoffInit"} =>
       (operation = NoOperation /\ results = <<>>)
  /\ pc \in {"pollInit", "checkInit"} =>
       (results = <<>> /\ PhasesSubmitted = {0})
  /\ pc \in {"pollExt", "checkExt"} =>
       (Len(results) = i + 1 /\ submits[Len(submits)].phase = i + 1)
  /\ SubmitsInPhaseOrder

C13_Witness ==
  /\ pc = "pollExt"
  /\ i = 1
  /\ ~operation.done
  /\ Len(results) = 2

(***************************************************************************)
(* C14: every continuation request is sent at 720p whatever resolution     *)
(* was requested, the same for all rounds of the run.                      *)
(***************************************************************************)
C14_ContinuationsAt720p ==
  \A k \in 1..Len(submits) :
    submits[k].phase >= 1 => submits[k].resolution = "720p"

C14_Witness ==
  /\ resolution = "1080p"
  /\ \E k \in 1..Len(submits) : submits[k].phase = 2

(***************************************************************************)
(* Errors at the boundary between a run and the handler that awaits it     *)
(***************************************************************************)
\* the latest answer of the service was the authorization error
AuthRejected == rejection = EAuth

\* the request that was rejected was a status check of generateVideo
LegacyCheckRejected == variant = "legacy" /\ pollSleeps > Len(checks)

\* withRetry slept after none of the authorization errors it saw
AuthNeverSleptOn ==
  \A k \in 1..Len(retryErrors) :
    retryErrors[k] = EAuth =>
      /\ k = Len(retryErrors)
      /\ Len(retrySleeps) = k - 1
      /\ retryState = "threw"

C16_AuthFailurePromptsReauth ==
  (AuthRejected /\ callerPc = "settled") => reauth

(***************************************************************************)
(* Invocations of the handler                                              *)
(***************************************************************************)
\* the invocation has no script text or no reference visual to send
InputMissing(call) ==
  \/ ~editablePrompts[call.setIdx]
  \/ ~ReferenceVisual(call.setIdx, call.mode)

RunsInFlight == {c \in 1..Len(calls) : calls[c].pc = "running"}

\* C17: an invocation whose instruction text is empty or whose seed artifact
\* is missing never sends a request to the media-generation service: once
\* past the key check it has returned after reporting an error.
C17_InvalidInputNeverSubmits ==
  \A c \in 1..Len(calls) :
    InputMissing(calls[c]) =>
      /\ ~calls[c].submitted
      /\ calls[c].pc \in {"hasKey", "selectKey", "returned"}
      /\ calls[c].pc = "returned" => appError # ""

\* an invocation with an empty script has returned without a request
C17_Witness ==
  \E c \in 1..Len(calls) :
    /\ ~editablePrompts[calls[c].setIdx]
    /\ calls[c].pc = "returned"
    /\ ~calls[c].submitted
    /\ appError = "the script must not be empty"

\* C18: at no moment are two runs of the pipeline in flight.
C18_OneRunAtATime == Cardinality(RunsInFlight) <= 1

(***************************************************************************)
(* The retry policy                                                        *)
(***************************************************************************)
TransientSignatures == {"429", "RESOURCE_EXHAUSTED", "500", "503"}

HasTransientSignature(e) ==
  e.hasMessage /\ \E sig \in TransientSignatures : Includes(e.message, sig)

\* withRetry slept after the k-th failure of the call
TreatedAsTransient(k) == k <= Len(retrySleeps)

\* withRetry rethrew the k-th failure of the call at once
TreatedAsFatal(k) ==
  /\ k = Len(retryErrors)
  /\ Len(retrySleeps) = k - 1
  /\ retryState = "threw"
  /\ thrown = retryErrors[k]

C20_DelaysDouble ==
  /\ \A k \in 1..Len(retrySleeps) :
       retrySleeps[k] = IF k = 1 THEN initialDelay ELSE 2 * retrySleeps[k - 1]
  /\ (initialDelay = 2000 /\ Len(retrySleeps) >= 3) =>
       SubSeq(retrySleeps, 1, 3) = <<2000, 4000, 8000>>

\* a call with the default policy slept three times
C20_Witness ==
  /\ maxRetries = 3
  /\ initialDelay = 2000
  /\ retrySleeps = <<2000, 4000, 8000>>

(***************************************************************************)
(* The run as a state machine                                              *)
(***************************************************************************)
\* the state of the run; the download of geminiService.ts belongs to the
\* polling state it follows
PipelineState ==
  CASE pc \in {"begin", "submitInit", "backoffInit"} -> "Submitting"
    [] pc \in {"pollInit", "checkInit"} -> "PollingInitial"
    [] pc \in {"submitExt", "backoffExt"} -> "Continuing"
    [] pc \in {"pollExt", "checkExt"} -> "PollingContinuation"
    [] pc = "fetch" ->
         IF InContinuation THEN "PollingContinuation" ELSE "PollingInitial"
    [] pc = "done" -> "Done"
    [] OTHER -> "Failed"

TerminalStates == {"Done", "Failed"}

AllowedMoves ==
  {<<"Submitting", "PollingInitial">>,
   <<"PollingInitial", "Continuing">>,
   <<"Continuing", "PollingContinuation">>,
   <<"PollingContinuation", "Continuing">>,
   <<"PollingInitial", "Done">>,
   <<"PollingContinuation", "Done">>}
  \cup {<<st, "Failed">> : st \in {"Submitting", "PollingInitial",
                                   "Continuing", "PollingContinuation"}}

\* C21: the run moves only along Submitting -> Polling(initial) ->
\* [Continuing -> Polling(continuation)]* -> Done, or from a non-terminal
\* state to Failed; in Done and Failed nothing more is submitted, checked or
\* reported.
C21_MovesAlongStateMachine ==
  [][/\ PipelineState' # PipelineState =>
          <<PipelineState, PipelineState'>> \in AllowedMoves
     /\ PipelineState \in TerminalStates =>
          UNCHANGED <<pc, submits, checks, pollSleeps, progress>>]_vars

\* a run went twice through Continuing and Polling(continuation) to Done
C21_Witness ==
  /\ pc = "done"
  /\ rounds = 2
  /\ Len(results) = 3
  /\ PhasesSubmitted = {0, 1, 2}

(***************************************************************************)
(* Polling                                                                 *)
(***************************************************************************)
Polling == pc \in {"pollInit", "pollExt"}
Checking == pc \in {"checkInit", "checkExt"}

\* C22: in every phase each status check comes after one sleep of its own,
\* a check is issued only while the operation has not reported done, none is
\* issued after a report of done, and a phase whose submit returned a done
\* operation has no sleep and no check.
C22_SleepThenCheckWhileNotDone ==
  /\ \A k \in 1..(Len(checks) - 1) : ~checks[k]
  /\ Checking => ~operation.done /\ pollSleeps = Len(checks) + 1
  /\ Polling => /\ pollSleeps = Len(checks)
                /\ checks # <<>> => checks[Len(checks)] = operation.done
  /\ pollSleeps \in {Len(checks), Len(checks) + 1}
  /\ pollSleeps = Len(checks) + 1 => Checking \/ (pc = "failed" /\ rejection # NoError)
  /\ (checks # <<>> /\ checks[Len(checks)]) => ~Checking

\* a continuation phase was checked twice: not done, then done
C22_Witness ==
  /\ pc = "pollExt"
  /\ checks = <<FALSE, TRUE>>
  /\ pollSleeps = 2
  /\ operation.done

(***************************************************************************)
(* Progress events                                                         *)
(***************************************************************************)
IsRoundEvent(ev) == ev.kind = "round"

\* the round events reported so far, in order
RoundEvents == SelectSeq(progress, IsRoundEvent)

\* C23: the first progress event is the initializing message and precedes
\* the initial submit; every continuation round has one progress event
\* "round i of N" ahead of its submit, with i = 1, 2, ... in order and N the
\* planned number of rounds.
C23_EventsAnnounceSubmits ==
  /\ progress # <<>> => progress[1] = [kind |-> "start", i |-> 0, n |-> 0]
  /\ submits # <<>> => progress # <<>>
  /\ \A k \in 1..Len(RoundEvents) :
       /\ RoundEvents[k] = [kind |-> "round", i |-> k, n |-> rounds]
       /\ rounds = ExtensionsNeeded(variant, targetDuration, resolution)
       /\ k <= rounds
  /\ \A k \in 1..Len(submits) : submits[k].phase <= Len(RoundEvents)
  /\ Len(RoundEvents) \in ContinuationsSubmitted \cup
       (IF pc = "submitExt" THEN {i + 1} ELSE {0})

\* round 2 of 2 has been announced and its request is not yet sent
C23_Witness ==
  /\ pc = "submitExt"
  /\ Len(RoundEvents) = 2
  /\ RoundEvents[2].n = 2
  /\ ContinuationsSubmitted = {1}

(***************************************************************************)
(* Invocations of the wrapped operation                                    *)
(***************************************************************************)
\* fn has been called and has not settled
Outstanding == IF pc = "retryAttempt" THEN 1 ELSE 0

\* calls of fn so far in this call of withRetry
Invocations == Len(retryErrors) + (IF pc \in {"retryAttempt", "retryReturned"} THEN 1 ELSE 0)

RetryFinished == pc \in {"retryReturned", "retryThrew"}

\* C24: withRetry has at most one invocation outstanding: an attempt is
\* running only when every earlier attempt has failed and the sleep that
\* followed each of them is over, and no attempt runs during a sleep.
C24_OneInvocationAtATime ==
  /\ Outstanding <= 1
  /\ pc = "retryAttempt" =>
       /\ Len(retryErrors) = retryI
       /\ Len(retrySleeps) = retryI
       /\ \A k \in 1..Len(retryErrors) : IsTransient(retryErrors[k])
  /\ pc = "retryBackoff" =>
       /\ Outstanding = 0
       /\ Len(retryErrors) = retryI + 1
       /\ Len(retrySleeps) = retryI + 1

\* the third attempt is running, after two failures and two finished sleeps
C24_Witness ==
  /\ pc = "retryAttempt"
  /\ retryI = 2
  /\ Len(retryErrors) = 2
  /\ Len(retrySleeps) = 2

(***************************************************************************)
(* Invocations in a row                                                    *)
(***************************************************************************)
IsPrefix(s, t) == Len(s) <= Len(t) /\ SubSeq(t, 1, Len(s)) = s

TotalRounds == IF rounds < 0 THEN 0 ELSE rounds

PollingStates == {"PollingInitial", "PollingContinuation"}

\* C27: when no call rejects and every operation ends up reporting done, the
\* run reaches Done or Failed and sends at most 1 + totalRounds submits; as
\* long as the operation is reported not done the run stays in its polling
\* state, whatever the number of reports.
C27_EndsUnlessNeverDone ==
  /\ [](Len(submits) <= 1 + TotalRounds)
  /\ <>(PipelineState \in TerminalStates)
  /\ [][(PipelineState \in PollingStates /\ ~operation'.done)
          => PipelineState' = PipelineState]_vars

\* a run of three phases ended after the last operation was reported not
\* done MaxPolls times
C27_Witness ==
  /\ pc = "done"
  /\ rounds = 2
  /\ Len(submits) = 3
  /\ NotDoneReports = MaxPolls
  /\ Len(checks) = MaxPolls + 1

(***************************************************************************)
(* Resolution of the submits in geminiService.ts                           *)
(***************************************************************************)
\* C28: in geminiService.ts a run requested at 1080p submits no continuation
\* whatever its target duration, and every submit of a run carries the
\* resolution that was requested.
C28_OneResolutionPerRun ==
  variant = "gemini" =>
    /\ resolution = "1080p" => ContinuationsSubmitted = {}
    /\ \A k \in 1..Len(submits) : submits[k].resolution = resolution

\* a run of 19 seconds at 1080p ended after its only submit
C28_Witness ==
  /\ variant = "gemini"
  /\ resolution = "1080p"
  /\ targetDuration = 19
  /\ pc = "done"
  /\ Len(submits) = 1

(***************************************************************************)
(* Video settings                                                          *)
(***************************************************************************)
\* C29: whatever buttons of the settings panel were clicked, a target
\* duration above 5 goes with the resolution 720p, and a click on a duration
\* above 5 leaves 720p selected.
C29_LongDurationMeans720p ==
  /\ targetDuration > 5 => resolution = "720p"
  /\ (selections # <<>> /\ selections[Len(selections)] \in {"12", "19"})
       => resolution = "720p"

\* 1080p was chosen again at duration 5, then the duration 12
C29_Witness ==
  /\ selections = <<"720p", "1080p", "12">>
  /\ targetDuration = 12
  /\ resolution = "720p"

(***************************************************************************)
(* The loading flag of a storyboard set                                    *)
(***************************************************************************)
\* runs in flight that were started for set s
RunsInFlightFor(s) == {c \in RunsInFlight : calls[c].setIdx = s}

\* C30: the loading flag of a set is true exactly while a run started for
\* that set is in flight, an invocation that returned early never set it,
\* and no second run for a set is started while its flag is true.
C30_LoadingIffRunInFlight ==
  \A s \in Sets :
    /\ setVideoLoading[s] <=> RunsInFlightFor(s) # {}
    /\ Cardinality(RunsInFlightFor(s)) <= 1

=============================================================================
